---- MODULE Spec2Model ----
(***************************************************************************)
(* Model of the Spline MCP server's tool-call gateway: the CallTool        *)
(* request handler of src/src/server.ts, the Redis-backed admission check  *)
(* of src/src/utils/rate-limiter.ts, the error classifier of               *)
(* src/src/utils/error-handler.ts and the argument checks of the four      *)
(* tool managers.                                                          *)
(***************************************************************************)
EXTENDS Integers, Sequences, FiniteSets, TLC

(***************************************************************************)
(* Bounds of the model.  MaxCount and WindowMs stand for the arguments     *)
(* 100 and 60000 that server.ts:75 passes to checkCustomLimit; the model   *)
(* runs the same code with a smaller quota and a shorter window.           *)
(***************************************************************************)
MaxCount == 1
WindowMs == 1000
MaxTicks == 2
MaxStoreFailures == 1
RandomSpace == 2

(***************************************************************************)
(* JavaScript values, tagged by their typeof / null.  Numbers are          *)
(* integers; s = "NaN" marks NaN.  An object carries the list of its own   *)
(* keys in s and their number in n.                                        *)
(***************************************************************************)
Undefined == [t |-> "undefined", s |-> "", n |-> 0]
Null == [t |-> "null", s |-> "", n |-> 0]
Str(x) == [t |-> "string", s |-> x, n |-> 0]
Num(k) == [t |-> "number", s |-> "", n |-> k]
NaN == [t |-> "number", s |-> "NaN", n |-> 0]
Bool(b) == [t |-> "boolean", s |-> "", n |-> IF b THEN 1 ELSE 0]
Obj(keys, k) == [t |-> "object", s |-> keys, n |-> k]

IsNaN(v) == v.t = "number" /\ v.s = "NaN"
IsNullish(v) == v.t \in {"undefined", "null"}

\* JavaScript ToBoolean.
Truthy(v) ==
    CASE v.t = "undefined" -> FALSE
      [] v.t = "null" -> FALSE
      [] v.t = "string" -> v.s # ""
      [] v.t = "number" -> ~IsNaN(v) /\ v.n # 0
      [] v.t = "boolean" -> v.n = 1
      [] OTHER -> TRUE

\* a || b
OrElse(a, b) == IF Truthy(a) THEN a ELSE b

\* A default parameter value applies to undefined alone.
DefaultParam(v, d) == IF v.t = "undefined" THEN d ELSE v

Digits == <<"0", "1", "2", "3", "4", "5", "6", "7", "8", "9">>
DigitChars == {Digits[i] : i \in 1..10}
DigitValue(ch) == (CHOOSE i \in 1..10 : Digits[i] = ch) - 1

RECURSIVE NatToString(_)
NatToString(k) ==
    IF k < 10 THEN Digits[k + 1] ELSE NatToString(k \div 10) \o Digits[(k % 10) + 1]

\* JavaScript ToString, as template literals and RegExp.test apply it.
JsToString(v) ==
    CASE v.t = "undefined" -> "undefined"
      [] v.t = "null" -> "null"
      [] v.t = "string" -> v.s
      [] v.t = "number" ->
            IF IsNaN(v) THEN "NaN"
            ELSE IF v.n < 0 THEN "-" \o NatToString(-v.n) ELSE NatToString(v.n)
      [] v.t = "boolean" -> IF v.n = 1 THEN "true" ELSE "false"
      [] OTHER -> "[object Object]"

CharAt(str, i) == SubSeq(str, i, i)

RECURSIVE TrimStart(_)
TrimStart(str) ==
    IF Len(str) > 0 /\ CharAt(str, 1) = " " THEN TrimStart(SubSeq(str, 2, Len(str)))
    ELSE str

RECURSIVE TrimEnd(_)
TrimEnd(str) ==
    IF Len(str) > 0 /\ CharAt(str, Len(str)) = " "
    THEN TrimEnd(SubSeq(str, 1, Len(str) - 1))
    ELSE str

\* String.prototype.trim
Trim(str) == TrimEnd(TrimStart(str))

RECURSIVE DigitsToNat(_)
DigitsToNat(str) ==
    IF Len(str) = 0 THEN 0
    ELSE 10 * DigitsToNat(SubSeq(str, 1, Len(str) - 1)) + DigitValue(CharAt(str, Len(str)))

AllDigits(str) == \A i \in 1..Len(str) : CharAt(str, i) \in DigitChars

\* JavaScript ToNumber of a string: blank is 0, decimal digits with an
\* optional sign are the number, anything else is NaN.
StringToNumber(str) ==
    LET w == Trim(str) IN
    IF Len(w) = 0 THEN Num(0)
    ELSE IF AllDigits(w) THEN Num(DigitsToNat(w))
    ELSE IF Len(w) > 1 /\ CharAt(w, 1) = "-" /\ AllDigits(SubSeq(w, 2, Len(w)))
         THEN Num(-DigitsToNat(SubSeq(w, 2, Len(w))))
    ELSE NaN

\* JavaScript ToNumber, as the relational operators apply it.
ToNumber(v) ==
    CASE v.t = "undefined" -> NaN
      [] v.t = "null" -> Num(0)
      [] v.t = "string" -> StringToNumber(v.s)
      [] v.t = "number" -> v
      [] v.t = "boolean" -> Num(v.n)
      [] OTHER -> NaN

\* a < k, a > k, a <= k, a >= k against a number literal: false on NaN.
JsLt(v, k) == LET x == ToNumber(v) IN ~IsNaN(x) /\ x.n < k
JsGt(v, k) == LET x == ToNumber(v) IN ~IsNaN(x) /\ x.n > k
JsLe(v, k) == LET x == ToNumber(v) IN ~IsNaN(x) /\ x.n <= k
JsGe(v, k) == LET x == ToNumber(v) IN ~IsNaN(x) /\ x.n >= k

(***************************************************************************)
(* Validator.isValidUUID: the case-insensitive pattern                     *)
(* ^[0-9a-f]{8}-[0-9a-f]{4}-[1-5][0-9a-f]{3}-[89ab][0-9a-f]{3}-[0-9a-f]{12}$ *)
(* tested against JsToString of the argument.                                *)
(***************************************************************************)
HexChars == DigitChars \cup {"a", "b", "c", "d", "e", "f", "A", "B", "C", "D", "E", "F"}
UuidLength == 36
UuidHyphens == {9, 14, 19, 24}
UuidVersionAt == 15
UuidVariantAt == 20

UuidPatternMatches(str) ==
    /\ Len(str) = UuidLength
    /\ \A i \in 1..UuidLength :
          CASE i \in UuidHyphens -> CharAt(str, i) = "-"
            [] i = UuidVersionAt -> CharAt(str, i) \in {"1", "2", "3", "4", "5"}
            [] i = UuidVariantAt -> CharAt(str, i) \in {"8", "9", "a", "b", "A", "B"}
            [] OTHER -> CharAt(str, i) \in HexChars

isValidUUID(v) == UuidPatternMatches(JsToString(v))

(***************************************************************************)
(* Thrown values.  spline says whether the value is an instance of         *)
(* SplineError; name is Error.prototype.name as ErrorHandler.handle reads  *)
(* it; statusCode and code are the SplineError fields (0 and "" on other   *)
(* errors, which do not have them).                                        *)
(***************************************************************************)
SplineError(message, statusCode, code) ==
    [class |-> "SplineError", spline |-> TRUE, name |-> "Error",
     statusCode |-> statusCode, code |-> code, message |-> message]

InternalStatus == 500
ValidationStatus == 400
NotFoundStatus == 404
RateLimitStatus == 429

ValidationError(message) ==
    [SplineError(message, ValidationStatus, "VALIDATION_ERROR")
        EXCEPT !.class = "ValidationError"]

NotFoundError(resource) ==
    [SplineError(resource \o " not found", NotFoundStatus, "NOT_FOUND")
        EXCEPT !.class = "NotFoundError"]

RateLimitError ==
    [SplineError("Rate limit exceeded", RateLimitStatus, "RATE_LIMIT_EXCEEDED")
        EXCEPT !.class = "RateLimitError"]

\* A SplineApiError that drops the status it is given.
SplineApiErrorDefault(message, statusCode) ==
    SplineError("Spline API Error: " \o message, InternalStatus, "SPLINE_API_ERROR")

SplineApiError(message, statusCode) ==
    [SplineError("Spline API Error: " \o message, statusCode, "SPLINE_API_ERROR")
        EXCEPT !.class = "SplineApiError"]

\* A TypeError raised by the runtime (property access on undefined, a call
\* of something that is not a function).
TypeError(message) ==
    [class |-> "TypeError", spline |-> FALSE, name |-> "TypeError",
     statusCode |-> 0, code |-> "", message |-> message]

\* McpError of the protocol SDK: an Error whose name is "McpError"; code
\* holds the protocol error code.
McpError(errorCode, message) ==
    [class |-> "McpError", spline |-> FALSE, name |-> "McpError",
     statusCode |-> 0, code |-> errorCode, message |-> message]

\* ErrorHandler.handle: the descriptor {statusCode, code, message}.
ErrorHandlerHandle(error) ==
    IF error.spline
    THEN [statusCode |-> error.statusCode, code |-> error.code, message |-> error.message]
    ELSE IF error.name = "ValidationError"
    THEN [statusCode |-> ValidationStatus, code |-> "VALIDATION_ERROR",
          message |-> error.message]
    ELSE IF error.name = "JsonWebTokenError"
    THEN [statusCode |-> 401, code |-> "INVALID_TOKEN",
          message |-> "Invalid authentication token"]
    ELSE IF error.name = "TokenExpiredError"
    THEN [statusCode |-> 401, code |-> "TOKEN_EXPIRED",
          message |-> "Authentication token expired"]
    ELSE [statusCode |-> InternalStatus, code |-> "INTERNAL_ERROR",
          message |-> "An unexpected error occurred"]

\* The catch clause of ErrorHandler.handleAsync: what it rethrows.
HandleAsyncRethrow(error) ==
    IF error.spline THEN error
    ELSE SplineError(error.message, InternalStatus, "INTERNAL_ERROR")

(***************************************************************************)
(* Tool arguments: request.params.arguments is either missing or a mapping *)
(* from field names to values (Undefined for a field the caller left out). *)
(***************************************************************************)
Fields ==
    {"sceneId", "jobId", "objectId", "name", "description", "newName", "limit",
     "offset", "position", "rotation", "scale", "properties", "visible", "type",
     "animationName", "variableName", "value", "duration", "easing", "format",
     "quality", "width", "height", "fps"}

NoFields == [f \in Fields |-> Undefined]
NoArgs == [present |-> FALSE, f |-> NoFields]
Args(f) == [present |-> TRUE, f |-> f]

\* What a manager method does before it awaits the backend: it throws, or
\* it sends one request.
NoError ==
    [class |-> "none", spline |-> FALSE, name |-> "", statusCode |-> 0,
     code |-> "", message |-> ""]
NoRequest == [method |-> "", path |-> "", payload |-> NoFields]
Throw(error) == [kind |-> "throw", error |-> error, request |-> NoRequest]
Send(method, path, payload) ==
    [kind |-> "request", error |-> NoError,
     request |-> [method |-> method, path |-> path, payload |-> payload]]

\* The first check of a method that fails decides what it throws.
RECURSIVE FirstFailure(_, _)
FirstFailure(checks, otherwise) ==
    IF checks = <<>> THEN otherwise
    ELSE IF Head(checks)[1] THEN Throw(Head(checks)[2])
    ELSE FirstFailure(Tail(checks), otherwise)

NotAFunction == TypeError("trim is not a function")

\* !v || v.trim().length === 0, which throws a TypeError on a truthy value
\* that is not a string.
BlankName(v) == ~Truthy(v) \/ (v.t = "string" /\ Len(Trim(v.s)) = 0)
TrimThrows(v) == Truthy(v) /\ v.t # "string"
NameChecks(v, message) ==
    <<<<TrimThrows(v), NotAFunction>>, <<BlankName(v), ValidationError(message)>>>>

\* v.length > k: undefined on anything but a string, so the test is false.
LongerThan(v, k) == v.t = "string" /\ Len(v.s) > k

SceneIdCheck(sceneId) ==
    <<<<~isValidUUID(sceneId), ValidationError("Invalid scene ID format")>>>>
JobIdCheck(jobId) ==
    <<<<~isValidUUID(jobId), ValidationError("Invalid job ID format")>>>>
ObjectIdCheck(objectId) ==
    <<<<~Truthy(objectId), ValidationError("Object ID is required")>>>>

\* Object.keys(v).length === 0
NoOwnKeys(v) ==
    CASE v.t = "string" -> Len(v.s) = 0
      [] v.t = "object" -> v.n = 0
      [] OTHER -> TRUE
PropertiesCheck(properties) ==
    <<<<~Truthy(properties) \/ NoOwnKeys(properties),
        ValidationError("Properties object cannot be empty")>>>>

ScenePath(sceneId) == "/scenes/" \o JsToString(sceneId)
ObjectPath(sceneId, objectId) ==
    ScenePath(sceneId) \o "/objects/" \o JsToString(objectId)
JobPath(jobId) == "/export/jobs/" \o JsToString(jobId)

(***************************************************************************)
(* Joi, as Validator.validate runs it: abortEarly false, so every rule     *)
(* that fails adds a message, and convert left on, so a numeric string is  *)
(* a number and "true"/"false" are booleans.                               *)
(***************************************************************************)
Quoted(label) == "\"" \o label \o "\""
JoiRequired(label, required) ==
    IF required THEN <<Quoted(label) \o " is required">> ELSE <<>>

JoiString(label, v, min, max, required) ==
    IF v.t = "undefined" THEN JoiRequired(label, required)
    ELSE IF v.t # "string" THEN <<Quoted(label) \o " must be a string">>
    ELSE IF v.s = "" THEN <<Quoted(label) \o " is not allowed to be empty">>
    ELSE (IF Len(v.s) < min THEN <<Quoted(label) \o " length must be at least min">>
          ELSE <<>>)
         \o (IF Len(v.s) > max
             THEN <<Quoted(label) \o " length must be less than or equal to max">>
             ELSE <<>>)

JoiValid(label, v, allowed, required) ==
    IF v.t = "undefined" THEN JoiRequired(label, required)
    ELSE IF v.t = "string" /\ v.s \in allowed THEN <<>>
    ELSE <<Quoted(label) \o " must be one of the allowed values">>
         \o (IF v.t # "string" THEN <<Quoted(label) \o " must be a string">>
             ELSE IF v.s = "" THEN <<Quoted(label) \o " is not allowed to be empty">>
             ELSE <<>>)

\* The number a Joi.number() rule works on: the value, or the number a
\* numeric string converts to; NaN when there is none.
JoiNumberOf(v) ==
    CASE v.t = "number" -> v
      [] v.t = "string" -> IF Len(Trim(v.s)) = 0 THEN NaN ELSE StringToNumber(v.s)
      [] OTHER -> NaN

JoiPositiveMax(label, v, max) ==
    IF v.t = "undefined" THEN <<>>
    ELSE IF IsNaN(JoiNumberOf(v)) THEN <<Quoted(label) \o " must be a number">>
    ELSE (IF JoiNumberOf(v).n <= 0 THEN <<Quoted(label) \o " must be a positive number">>
          ELSE <<>>)
         \o (IF JoiNumberOf(v).n > max
             THEN <<Quoted(label) \o " must be less than or equal to max">>
             ELSE <<>>)

JoiBooleanOf(v) ==
    IF v.t = "string" /\ v.s \in {"true", "false"} THEN Bool(v.s = "true") ELSE v

JoiBoolean(label, v, required) ==
    IF v.t = "undefined" THEN JoiRequired(label, required)
    ELSE IF JoiBooleanOf(v).t = "boolean" THEN <<>>
    ELSE <<Quoted(label) \o " must be a boolean">>

JoiObject(label, v, required) ==
    IF v.t = "undefined" THEN JoiRequired(label, required)
    ELSE IF v.t = "object" THEN <<>>
    ELSE <<Quoted(label) \o " must be of type object">>

JoiAny(label, v, required) ==
    IF v.t = "undefined" THEN JoiRequired(label, required) ELSE <<>>

\* The own keys of an object value, listed in s separated by commas.
RECURSIVE KeysOf(_)
KeysOf(str) ==
    IF Len(str) = 0 THEN {}
    ELSE LET cut == IF \E i \in 1..Len(str) : CharAt(str, i) = ","
                    THEN CHOOSE i \in 1..Len(str) :
                            /\ CharAt(str, i) = ","
                            /\ \A j \in 1..(i - 1) : CharAt(str, j) # ","
                    ELSE Len(str) + 1
         IN  {SubSeq(str, 1, cut - 1)} \cup KeysOf(SubSeq(str, cut + 1, Len(str)))

\* Validator.vector3Schema: x, y and z required (the components an object
\* value of the model has are numbers), no other key allowed.
Vector3Keys == <<"x", "y", "z">>
Dotted(label, key) == IF label = "value" THEN key ELSE label \o "." \o key
JoiVector3(label, v, required) ==
    IF v.t = "undefined" THEN JoiRequired(label, required)
    ELSE IF v.t # "object" THEN <<Quoted(label) \o " must be of type object">>
    ELSE LET has == KeysOf(v.s)
             miss(k) == IF k \in has THEN <<>>
                        ELSE <<Quoted(Dotted(label, k)) \o " is required">>
         IN  miss("x") \o miss("y") \o miss("z")
             \o (IF has \subseteq {"x", "y", "z"} THEN <<>>
                 ELSE <<Quoted(label) \o " has a key that is not allowed">>)

RECURSIVE JoinMessages(_)
JoinMessages(messages) ==
    IF Len(messages) = 1 THEN messages[1]
    ELSE messages[1] \o ", " \o JoinMessages(Tail(messages))

\* Validator.validate: throws one ValidationError that joins every message.
ValidatorValidate(messages) ==
    <<<<messages # <<>>,
        ValidationError(IF messages = <<>> THEN "" ELSE JoinMessages(messages))>>>>

(***************************************************************************)
(* SplineSceneManager (scene-management.ts).  Each method is its code up   *)
(* to the backend request: the checks in source order, then the request.   *)
(***************************************************************************)
Payload(pairs) ==
    [f \in Fields |->
        IF \E i \in 1..Len(pairs) : pairs[i][1] = f
        THEN pairs[CHOOSE i \in 1..Len(pairs) : pairs[i][1] = f][2]
        ELSE Undefined]

ListLimitMin == 1
ListLimitMax == 100
ListLimitDefault == 50
ListOffsetDefault == 0
SceneNameMax == 100

LimitCheck(limit) ==
    <<<<JsLt(limit, ListLimitMin) \/ JsGt(limit, ListLimitMax),
        ValidationError("Limit must be between 1 and 100")>>>>

listScenes(limitArg, offsetArg) ==
    LET limit == DefaultParam(limitArg, Num(ListLimitDefault))
        offset == DefaultParam(offsetArg, Num(ListOffsetDefault))
    IN  FirstFailure(LimitCheck(limit),
            Send("GET", "/scenes", Payload(<<<<"limit", limit>>, <<"offset", offset>>>>)))

getScene(sceneId) ==
    FirstFailure(SceneIdCheck(sceneId), Send("GET", ScenePath(sceneId), NoFields))

\* description?.trim()
OptionalTrimThrows(v) == ~IsNullish(v) /\ v.t # "string"
OptionalTrim(v) == IF v.t = "string" THEN Str(Trim(v.s)) ELSE Undefined

createScene(name, description) ==
    FirstFailure(
        NameChecks(name, "Scene name is required")
        \o <<<<LongerThan(name, SceneNameMax),
               ValidationError("Scene name must be less than 100 characters")>>,
             <<OptionalTrimThrows(description), NotAFunction>>>>,
        Send("POST", "/scenes",
             Payload(<<<<"name", Str(Trim(JsToString(name)))>>,
                       <<"description", OptionalTrim(description)>>>>)))

updateScene(sceneId, name, description) ==
    FirstFailure(
        SceneIdCheck(sceneId)
        \o (IF name.t # "undefined"
            THEN NameChecks(name, "Scene name cannot be empty")
                 \o <<<<LongerThan(name, SceneNameMax),
                        ValidationError("Scene name must be less than 100 characters")>>>>
            ELSE <<>>),
        Send("PATCH", ScenePath(sceneId),
             Payload(<<<<"name", name>>, <<"description", description>>>>)))

deleteScene(sceneId) ==
    FirstFailure(SceneIdCheck(sceneId), Send("DELETE", ScenePath(sceneId), NoFields))

duplicateScene(sceneId, newName) ==
    FirstFailure(SceneIdCheck(sceneId),
        Send("POST", ScenePath(sceneId) \o "/duplicate", Payload(<<<<"name", newName>>>>)))

(***************************************************************************)
(* SplineObjectManager (object-manipulation.ts).                           *)
(***************************************************************************)
getSceneObjects(sceneId) ==
    FirstFailure(SceneIdCheck(sceneId),
        Send("GET", ScenePath(sceneId) \o "/objects", NoFields))

getObject(sceneId, objectId) ==
    FirstFailure(SceneIdCheck(sceneId) \o ObjectIdCheck(objectId),
        Send("GET", ObjectPath(sceneId, objectId), NoFields))

\* if (transform.position) Validator.validate(Validator.vector3Schema, ...)
TransformCheck(v) ==
    IF Truthy(v) THEN ValidatorValidate(JoiVector3("value", v, TRUE)) ELSE <<>>

updateObjectTransform(sceneId, objectId, position, rotation, scale) ==
    FirstFailure(
        SceneIdCheck(sceneId) \o ObjectIdCheck(objectId) \o TransformCheck(position)
        \o TransformCheck(rotation) \o TransformCheck(scale),
        Send("PATCH", ObjectPath(sceneId, objectId) \o "/transform",
             Payload(<<<<"position", position>>, <<"rotation", rotation>>,
                       <<"scale", scale>>>>)))

updateObjectProperties(sceneId, objectId, properties) ==
    FirstFailure(
        SceneIdCheck(sceneId) \o ObjectIdCheck(objectId) \o PropertiesCheck(properties),
        Send("PATCH", ObjectPath(sceneId, objectId) \o "/properties",
             Payload(<<<<"properties", properties>>>>)))

setObjectVisibility(sceneId, objectId, visible) ==
    FirstFailure(SceneIdCheck(sceneId) \o ObjectIdCheck(objectId),
        Send("PATCH", ObjectPath(sceneId, objectId), Payload(<<<<"visible", visible>>>>)))

ObjectNameMax == 100
ObjectTypes == {"mesh", "light", "camera", "group", "text", "spline"}

\* Validator.splineObjectSchema with id made optional; objectData has no id.
SplineObjectMessages(name, type, position, rotation, scale, visible, properties) ==
    JoiString("name", name, 1, ObjectNameMax, TRUE)
    \o JoiValid("type", type, ObjectTypes, TRUE)
    \o JoiVector3("position", position, TRUE)
    \o JoiVector3("rotation", rotation, TRUE)
    \o JoiVector3("scale", scale, TRUE)
    \o JoiBoolean("visible", visible, TRUE)
    \o JoiObject("properties", properties, FALSE)

createObject(sceneId, name, type, position, rotation, scale, visible, properties) ==
    FirstFailure(
        SceneIdCheck(sceneId)
        \o ValidatorValidate(SplineObjectMessages(name, type, position, rotation,
                                                  scale, visible, properties)),
        Send("POST", ScenePath(sceneId) \o "/objects",
             Payload(<<<<"name", name>>, <<"type", type>>, <<"position", position>>,
                       <<"rotation", rotation>>, <<"scale", scale>>,
                       <<"visible", JoiBooleanOf(visible)>>,
                       <<"properties", properties>>>>)))

deleteObject(sceneId, objectId) ==
    FirstFailure(SceneIdCheck(sceneId) \o ObjectIdCheck(objectId),
        Send("DELETE", ObjectPath(sceneId, objectId), NoFields))

duplicateObject(sceneId, objectId) ==
    FirstFailure(SceneIdCheck(sceneId) \o ObjectIdCheck(objectId),
        Send("POST", ObjectPath(sceneId, objectId) \o "/duplicate", NoFields))

(***************************************************************************)
(* SplineAnimationManager (animation-control.ts).                          *)
(***************************************************************************)
getAnimations(sceneId) ==
    FirstFailure(SceneIdCheck(sceneId),
        Send("GET", ScenePath(sceneId) \o "/animations", NoFields))

AnimationCommand(sceneId, animationName, verb) ==
    FirstFailure(
        SceneIdCheck(sceneId) \o NameChecks(animationName, "Animation name is required"),
        Send("POST",
             ScenePath(sceneId) \o "/animations/" \o JsToString(animationName) \o verb,
             NoFields))

playAnimation(sceneId, animationName) == AnimationCommand(sceneId, animationName, "/play")
pauseAnimation(sceneId, animationName) == AnimationCommand(sceneId, animationName, "/pause")
stopAnimation(sceneId, animationName) == AnimationCommand(sceneId, animationName, "/stop")

getVariables(sceneId) ==
    FirstFailure(SceneIdCheck(sceneId),
        Send("GET", ScenePath(sceneId) \o "/variables", NoFields))

getVariable(sceneId, variableName) ==
    FirstFailure(
        SceneIdCheck(sceneId) \o NameChecks(variableName, "Variable name is required"),
        Send("GET", ScenePath(sceneId) \o "/variables/" \o JsToString(variableName),
             NoFields))

VariableNameMax == 50
VariableTypes == {"string", "number", "boolean", "color", "vector3"}

\* Validator.variableSchema
VariableMessages(name, value, type) ==
    JoiString("name", name, 1, VariableNameMax, TRUE)
    \o JoiAny("value", value, TRUE)
    \o JoiValid("type", type, VariableTypes, TRUE)

setVariable(sceneId, name, value, type) ==
    FirstFailure(
        SceneIdCheck(sceneId) \o ValidatorValidate(VariableMessages(name, value, type)),
        Send("PUT", ScenePath(sceneId) \o "/variables/" \o JsToString(name),
             Payload(<<<<"name", name>>, <<"value", value>>, <<"type", type>>>>)))

createTransition(sceneId, objectId, properties, duration, easingArg) ==
    LET easing == DefaultParam(easingArg, Str("ease")) IN
    FirstFailure(
        SceneIdCheck(sceneId) \o ObjectIdCheck(objectId) \o PropertiesCheck(properties)
        \o <<<<JsLe(duration, 0), ValidationError("Duration must be positive")>>>>,
        Send("POST", ObjectPath(sceneId, objectId) \o "/transition",
             Payload(<<<<"properties", properties>>, <<"duration", duration>>,
                       <<"easing", easing>>>>)))

(***************************************************************************)
(* SplineExportManager (export-tools.ts).                                  *)
(***************************************************************************)
ExportFormats == {"gltf", "obj", "fbx", "image", "video"}
ExportQualities == {"low", "medium", "high"}
ExportSizeMax == 4096
ExportFpsMax == 60
ExportDurationMax == 300
ExportFpsDefault == 30

\* Validator.exportOptionsSchema
ExportOptionsMessages(format, quality, width, height, fps, duration) ==
    JoiValid("format", format, ExportFormats, TRUE)
    \o JoiValid("quality", quality, ExportQualities, FALSE)
    \o JoiPositiveMax("width", width, ExportSizeMax)
    \o JoiPositiveMax("height", height, ExportSizeMax)
    \o JoiPositiveMax("fps", fps, ExportFpsMax)
    \o JoiPositiveMax("duration", duration, ExportDurationMax)

\* An export that asks no format for its size.
SizeRequiredNever(format) == FALSE

\* validatedOptions.format === 'image' || validatedOptions.format === 'video'
SizeRequired(format) == format.t = "string" /\ format.s \in {"image", "video"}

\* The value Joi returns for an optional number: converted when present.
JoiNumberValue(v) == IF v.t = "undefined" THEN v ELSE JoiNumberOf(v)

exportScene(sceneId, format, qualityArg, widthArg, heightArg, fpsArg, durationArg) ==
    LET quality == DefaultParam(qualityArg, Str("medium"))
        width == JoiNumberValue(widthArg)
        height == JoiNumberValue(heightArg)
        fps == JoiNumberValue(fpsArg)
        duration == JoiNumberValue(durationArg)
        sized == SizeRequired(format)
        video == format.t = "string" /\ format.s = "video"
    IN  FirstFailure(
            SceneIdCheck(sceneId)
            \o ValidatorValidate(ExportOptionsMessages(format, qualityArg, widthArg,
                                                       heightArg, fpsArg, durationArg))
            \o <<<<sized /\ (~Truthy(width) \/ ~Truthy(height)),
                   ValidationError(
                       "Width and height are required for image and video exports")>>>>,
            Send("POST", ScenePath(sceneId) \o "/export",
                 Payload(<<<<"format", format>>, <<"quality", quality>>,
                           <<"width", width>>, <<"height", height>>,
                           <<"fps", IF video /\ ~Truthy(fps)
                                    THEN Num(ExportFpsDefault) ELSE fps>>,
                           <<"duration", duration>>>>)))

getExportStatus(jobId) ==
    FirstFailure(JobIdCheck(jobId), Send("GET", JobPath(jobId), NoFields))

cancelExport(jobId) ==
    FirstFailure(JobIdCheck(jobId), Send("DELETE", JobPath(jobId), NoFields))

HistoryLimitDefault == 20

getExportHistory(sceneId, limitArg) ==
    LET limit == DefaultParam(limitArg, Num(HistoryLimitDefault)) IN
    FirstFailure(SceneIdCheck(sceneId) \o LimitCheck(limit),
        Send("GET", ScenePath(sceneId) \o "/export/history",
             Payload(<<<<"limit", limit>>>>)))

downloadExport(jobId) ==
    FirstFailure(JobIdCheck(jobId), Send("POST", JobPath(jobId) \o "/download", NoFields))

PreviewWidthDefault == 800
PreviewHeightDefault == 600
PreviewSizeMin == 100
PreviewSizeMax == 4096

getPreviewImage(sceneId, widthArg, heightArg) ==
    LET width == DefaultParam(widthArg, Num(PreviewWidthDefault))
        height == DefaultParam(heightArg, Num(PreviewHeightDefault))
    IN  FirstFailure(
            SceneIdCheck(sceneId)
            \o <<<<\/ JsLt(width, PreviewSizeMin) \/ JsGt(width, PreviewSizeMax)
                   \/ JsLt(height, PreviewSizeMin) \/ JsGt(height, PreviewSizeMax),
                   ValidationError(
                       "Width and height must be between 100 and 4096 pixels")>>>>,
            Send("GET", ScenePath(sceneId) \o "/preview",
                 Payload(<<<<"width", width>>, <<"height", height>>>>)))

(***************************************************************************)
(* The registry.  ListedTools is what the ListTools handler returns (the   *)
(* four Tool arrays, in order); SwitchCases is the case labels of the      *)
(* CallTool handler's switch.                                              *)
(***************************************************************************)
sceneManagementTools ==
    <<"spline_list_scenes", "spline_get_scene", "spline_create_scene",
      "spline_update_scene", "spline_delete_scene", "spline_duplicate_scene">>
objectManipulationTools ==
    <<"spline_get_scene_objects", "spline_get_object", "spline_update_object_transform",
      "spline_update_object_properties", "spline_set_object_visibility",
      "spline_create_object", "spline_delete_object", "spline_duplicate_object">>
animationControlTools ==
    <<"spline_get_animations", "spline_play_animation", "spline_pause_animation",
      "spline_stop_animation", "spline_get_variables", "spline_get_variable",
      "spline_set_variable", "spline_create_transition">>
exportTools ==
    <<"spline_export_scene", "spline_get_export_status", "spline_cancel_export",
      "spline_get_export_history", "spline_download_export", "spline_get_preview_image">>

ListedTools ==
    sceneManagementTools \o objectManipulationTools \o animationControlTools \o exportTools
ListedNames == {ListedTools[i] : i \in 1..Len(ListedTools)}

\* A switch that has lost its last case.
SwitchCasesButOne ==
    {ListedTools[i] : i \in 1..(Len(ListedTools) - 1)}

SwitchCases ==
    {"spline_list_scenes", "spline_get_scene", "spline_create_scene",
     "spline_update_scene", "spline_delete_scene", "spline_duplicate_scene",
     "spline_get_scene_objects", "spline_get_object", "spline_update_object_transform",
     "spline_update_object_properties", "spline_set_object_visibility",
     "spline_create_object", "spline_delete_object", "spline_duplicate_object",
     "spline_get_animations", "spline_play_animation", "spline_pause_animation",
     "spline_stop_animation", "spline_get_variables", "spline_get_variable",
     "spline_set_variable", "spline_create_transition", "spline_export_scene",
     "spline_get_export_status", "spline_cancel_export", "spline_get_export_history",
     "spline_download_export", "spline_get_preview_image"}

\* The required list of each tool's inputSchema.
RequiredFields(tool) ==
    CASE tool \in {"spline_list_scenes"} -> {}
      [] tool \in {"spline_create_scene"} -> {"name"}
      [] tool \in {"spline_get_object", "spline_update_object_transform",
                   "spline_delete_object", "spline_duplicate_object"} ->
            {"sceneId", "objectId"}
      [] tool = "spline_update_object_properties" -> {"sceneId", "objectId", "properties"}
      [] tool = "spline_set_object_visibility" -> {"sceneId", "objectId", "visible"}
      [] tool = "spline_create_object" ->
            {"sceneId", "name", "type", "position", "rotation", "scale"}
      [] tool \in {"spline_play_animation", "spline_pause_animation",
                   "spline_stop_animation"} -> {"sceneId", "animationName"}
      [] tool = "spline_get_variable" -> {"sceneId", "variableName"}
      [] tool = "spline_set_variable" -> {"sceneId", "name", "value", "type"}
      [] tool = "spline_create_transition" ->
            {"sceneId", "objectId", "properties", "duration"}
      [] tool = "spline_export_scene" -> {"sceneId", "format"}
      [] tool \in {"spline_get_export_status", "spline_cancel_export",
                   "spline_download_export"} -> {"jobId"}
      [] OTHER -> {"sceneId"}

\* The body of one case of the switch: the arguments it reads and the
\* manager method it calls.
CallManager(tool, a) ==
    CASE tool = "spline_list_scenes" -> listScenes(a.limit, a.offset)
      [] tool = "spline_get_scene" -> getScene(a.sceneId)
      [] tool = "spline_create_scene" -> createScene(a.name, a.description)
      [] tool = "spline_update_scene" -> updateScene(a.sceneId, a.name, a.description)
      [] tool = "spline_delete_scene" -> deleteScene(a.sceneId)
      [] tool = "spline_duplicate_scene" -> duplicateScene(a.sceneId, a.newName)
      [] tool = "spline_get_scene_objects" -> getSceneObjects(a.sceneId)
      [] tool = "spline_get_object" -> getObject(a.sceneId, a.objectId)
      [] tool = "spline_update_object_transform" ->
            updateObjectTransform(a.sceneId, a.objectId, a.position, a.rotation, a.scale)
      [] tool = "spline_update_object_properties" ->
            updateObjectProperties(a.sceneId, a.objectId, a.properties)
      [] tool = "spline_set_object_visibility" ->
            setObjectVisibility(a.sceneId, a.objectId, a.visible)
      [] tool = "spline_create_object" ->
            createObject(a.sceneId, a.name, a.type, a.position, a.rotation, a.scale,
                         IF a.visible.t # "undefined" THEN a.visible ELSE Bool(TRUE),
                         OrElse(a.properties, Obj("", 0)))
      [] tool = "spline_delete_object" -> deleteObject(a.sceneId, a.objectId)
      [] tool = "spline_duplicate_object" -> duplicateObject(a.sceneId, a.objectId)
      [] tool = "spline_get_animations" -> getAnimations(a.sceneId)
      [] tool = "spline_play_animation" -> playAnimation(a.sceneId, a.animationName)
      [] tool = "spline_pause_animation" -> pauseAnimation(a.sceneId, a.animationName)
      [] tool = "spline_stop_animation" -> stopAnimation(a.sceneId, a.animationName)
      [] tool = "spline_get_variables" -> getVariables(a.sceneId)
      [] tool = "spline_get_variable" -> getVariable(a.sceneId, a.variableName)
      [] tool = "spline_set_variable" -> setVariable(a.sceneId, a.name, a.value, a.type)
      [] tool = "spline_create_transition" ->
            createTransition(a.sceneId, a.objectId, a.properties, a.duration, a.easing)
      [] tool = "spline_export_scene" ->
            exportScene(a.sceneId, a.format, OrElse(a.quality, Str("medium")), a.width,
                        a.height, a.fps, a.duration)
      [] tool = "spline_get_export_status" -> getExportStatus(a.jobId)
      [] tool = "spline_cancel_export" -> cancelExport(a.jobId)
      [] tool = "spline_get_export_history" -> getExportHistory(a.sceneId, a.limit)
      [] tool = "spline_download_export" -> downloadExport(a.jobId)
      [] tool = "spline_get_preview_image" ->
            getPreviewImage(a.sceneId, OrElse(a.width, Num(PreviewWidthDefault)),
                            OrElse(a.height, Num(PreviewHeightDefault)))

(***************************************************************************)
(* RateLimiter (rate-limiter.ts) over a Redis store.                       *)
(***************************************************************************)
\* One key for all the tools.
RateLimitKeyGlobal(name) == "tool:"

\* server.ts:74 and rate-limiter.ts:107: the key of a tool's counter.
RateLimitKey(name) == "tool:" \o name
CustomKey(identifier) == "custom:" \o identifier
CounterKey(name) == CustomKey(RateLimitKey(name))

\* Math.ceil(windowMs / 1000)
MsPerSecond == 1000
TtlSeconds(windowMs) == (windowMs + MsPerSecond - 1) \div MsPerSecond

\* A catch clause that fails closed.
IncrementOnErrorClosed == MaxCount + 1

\* What store.increment returns from its catch clause.
IncrementOnError == 1

\* if (current === 1) await redisClient.expire(key, ttl)
SetsExpiry(current) == current = 1

\* An increment that is lost when the key exists already.
IncrementedLost(count) == IF count = 0 THEN 1 ELSE count

\* A comparison that is off by one.
WithinLimitStrict(count, limit) == count < limit

\* An increment that counts a call twice.
IncrementedTwice(count) == count + 2

\* redisClient.incr(key): the count after the increment.
Incremented(count) == count + 1

\* return count <= limit
WithinLimit(count, limit) == count <= limit

\* A handler that ignores the answer of the admission check.
DeniedNever(isAllowed) == FALSE

\* if (!isAllowed) throw ...
Denied(isAllowed) == ~isAllowed

(***************************************************************************)
(* Inputs.                                                                 *)
(***************************************************************************)
\* Names no case of the switch matches: one that resembles none, and one that
\* differs from a listed name by its letter case alone.
UnknownNames == {"spline_unknown_tool", "Spline_Get_Scene"}
CallNames == ListedNames \cup SwitchCases \cup UnknownNames
Keys == {CounterKey(n) : n \in CallNames}

ValidUuid == Str("123e4567-e89b-42d3-a456-426614174000")
OtherUuid == Str("9F8E7D6C-5B4A-1F2E-8D3C-0A1B2C3D4E5F")
Vector3Value == Obj("x,y,z", 3)
PropertiesValue == Obj("color", 1)

\* A call of each tool that satisfies its input contract, every declared
\* field supplied.
GoodFields(tool) ==
    [f \in Fields |->
        CASE f \in {"sceneId", "jobId"} -> ValidUuid
          [] f = "objectId" -> Str("obj-1")
          [] f \in {"name", "newName"} -> Str("Lobby")
          [] f = "description" -> Str("Main hall")
          [] f = "limit" -> Num(10)
          [] f = "offset" -> Num(0)
          [] f \in {"position", "rotation", "scale"} -> Vector3Value
          [] f = "properties" -> PropertiesValue
          [] f = "visible" -> Bool(FALSE)
          [] f = "type" ->
                IF tool = "spline_set_variable" THEN Str("number") ELSE Str("mesh")
          [] f \in {"animationName", "variableName"} -> Str("spin")
          [] f = "value" -> Num(7)
          [] f = "duration" -> Num(200)
          [] f = "easing" -> Str("linear")
          [] f = "format" -> Str("video")
          [] f = "quality" -> Str("high")
          [] f \in {"width", "height"} -> Num(640)
          [] f = "fps" -> Num(24)]

\* The properties of each tool's inputSchema.
DeclaredFields(tool) ==
    CASE tool = "spline_list_scenes" -> {"limit", "offset"}
      [] tool = "spline_create_scene" -> {"name", "description"}
      [] tool = "spline_update_scene" -> {"sceneId", "name", "description"}
      [] tool = "spline_duplicate_scene" -> {"sceneId", "newName"}
      [] tool \in {"spline_get_object", "spline_delete_object",
                   "spline_duplicate_object"} -> {"sceneId", "objectId"}
      [] tool = "spline_update_object_transform" ->
            {"sceneId", "objectId", "position", "rotation", "scale"}
      [] tool = "spline_update_object_properties" -> {"sceneId", "objectId", "properties"}
      [] tool = "spline_set_object_visibility" -> {"sceneId", "objectId", "visible"}
      [] tool = "spline_create_object" ->
            {"sceneId", "name", "type", "position", "rotation", "scale", "visible",
             "properties"}
      [] tool \in {"spline_play_animation", "spline_pause_animation",
                   "spline_stop_animation"} -> {"sceneId", "animationName"}
      [] tool = "spline_get_variable" -> {"sceneId", "variableName"}
      [] tool = "spline_set_variable" -> {"sceneId", "name", "value", "type"}
      [] tool = "spline_create_transition" ->
            {"sceneId", "objectId", "properties", "duration", "easing"}
      [] tool = "spline_export_scene" ->
            {"sceneId", "format", "quality", "width", "height", "fps", "duration"}
      [] tool \in {"spline_get_export_status", "spline_cancel_export",
                   "spline_download_export"} -> {"jobId"}
      [] tool = "spline_get_export_history" -> {"sceneId", "limit"}
      [] tool = "spline_get_preview_image" -> {"sceneId", "width", "height"}
      [] OTHER -> {"sceneId"}

GoodArgs(tool) ==
    [f \in Fields |-> IF f \in DeclaredFields(tool) THEN GoodFields(tool)[f] ELSE Undefined]

\* The values a caller may put in place of a good one.
OtherValues(f) ==
    {Undefined, Null}
    \cup (CASE f \in {"sceneId", "jobId"} -> {Str("not-a-uuid"), OtherUuid}
            [] f \in {"limit", "width", "height", "fps", "duration", "offset"} ->
                  {Num(0), Num(99), Num(100), Num(101), Num(4096), Num(4097), Str("abc")}
            [] f \in {"name", "newName", "animationName", "variableName", "objectId"} ->
                  {Str(""), Str("  "), Num(5)}
            [] f \in {"position", "rotation", "scale"} -> {Obj("x,y", 2), Str("up")}
            [] f = "properties" -> {Obj("", 0)}
            [] f = "visible" -> {Bool(TRUE), Str("yes")}
            [] f \in {"format", "type", "quality", "easing"} ->
                  {Str("image"), Str("gltf"), Str("bogus")}
            [] OTHER -> {})

\* Exports of every format, with and without a width and a height.
ExportSizeInputs ==
    {[name |-> "spline_export_scene",
      args |-> Args([GoodArgs("spline_export_scene")
                        EXCEPT !["format"] = Str(format),
                               !["width"] = width,
                               !["height"] = height])] :
        format \in ExportFormats, width \in {Undefined, Num(640)},
        height \in {Undefined, Num(640)}}

\* The calls of the contract specification: every tool with its good
\* arguments, with one field replaced, with an empty argument mapping and
\* with no argument mapping; and an unregistered name.
ContractInputs ==
    UNION {
        {[name |-> tool, args |-> Args(GoodArgs(tool))],
         [name |-> tool, args |-> Args(NoFields)],
         [name |-> tool, args |-> NoArgs]}
        \cup UNION {{[name |-> tool, args |-> Args([GoodArgs(tool) EXCEPT ![f] = v])] :
                        v \in OtherValues(f)} : f \in DeclaredFields(tool)}
        : tool \in ListedNames}
    \cup {[name |-> n, args |-> Args(NoFields)] : n \in UnknownNames}
    \cup ExportSizeInputs

\* The calls of the gateway specification: a registered tool, in a call
\* that passes its checks and in one that fails them, a second registered
\* tool called without arguments, and an unregistered name.
GatewayInputs ==
    {[name |-> "spline_get_scene", args |-> Args(GoodArgs("spline_get_scene"))],
     [name |-> "spline_get_scene", args |-> Args(NoFields)],
     [name |-> "spline_list_scenes", args |-> NoArgs],
     [name |-> "spline_unknown_tool", args |-> Args(NoFields)]}

(***************************************************************************)
(* State.                                                                  *)
(***************************************************************************)
VARIABLES
    storeConfigured,  \* RateLimiter.store is not null (config.redis.url is set)
    redis,            \* the counters in Redis: key -> count, expiry, window start
    now,              \* Date.now(), in ms
    failures,         \* store commands that have failed so far
    pc,               \* where each call is
    input,            \* request.params of each call: name and arguments
    requestId,        \* the requestId the handler generated for the call
    current,          \* what store.increment returned to the call
    storeFailed,      \* a store command failed during the call's admission check
    isAllowed,        \* what checkCustomLimit returned to the call
    invoked,          \* manager methods the call has invoked
    sent,             \* backend requests the call has sent
    request,          \* the backend request of the call
    response,         \* the status the backend answered the call's request with
    outcome,          \* how the handler ended: it returned or it threw
    caught,           \* the value the catch clause of the handler caught
    turn,             \* history: the call's place among the checks of its tool
    process           \* the Node process: main, signal listeners, exit

vars ==
    <<storeConfigured, redis, now, failures, pc, input, requestId, current,
      storeFailed, isAllowed, invoked, sent, request, response, outcome, caught,
      turn, process>>

\* One call more than the quota admits.
NumCalls == MaxCount + 1
CallIds == 1..NumCalls

NoExpiry == -1
NotStarted == -1
NoKey == [count |-> 0, expireAt |-> NoExpiry, windowStart |-> NotStarted]
Unanswered == -1
NoId == [src |-> "none", ms |-> 0, rnd |-> 0]
NoOutcome ==
    [kind |-> "none", success |-> FALSE, hasData |-> FALSE, hasError |-> FALSE,
     requestId |-> NoId,
     mcpCode |-> "", statusCode |-> 0, code |-> "", message |-> ""]

Ttl == TtlSeconds(WindowMs)
NameOf(c) == input[c].name
KeyOf(c) == CounterKey(NameOf(c))

(***************************************************************************)
(* The process (index.ts).  The module registers a listener for SIGTERM    *)
(* and one for SIGINT that call process.exit(0), then calls main, which    *)
(* awaits server.run() and then registers `shutdown` for both signals.     *)
(***************************************************************************)
Signals == {"SIGTERM", "SIGINT"}

\* The module has been evaluated: main awaits server.run().
Loaded ==
    [main |-> "run",
     listeners |-> [sig \in Signals |-> <<"exit">>],
     signal |-> "none",
     signalled |-> "never",
     closed |-> FALSE,
     exited |-> FALSE,
     exitCode |-> 0]

\* process.on('SIGTERM', shutdown); process.on('SIGINT', shutdown);
Started ==
    [Loaded EXCEPT !.main = "started",
                   !.listeners = [sig \in Signals |-> <<"exit", "shutdown">>]]

InitCalls(received) ==
    /\ now = 0
    /\ failures = 0
    /\ pc \in [CallIds -> {"waiting", "unused"}]
    /\ \A c \in CallIds : pc[c] = "waiting" <=> c \in received
    /\ requestId = [c \in CallIds |-> NoId]
    /\ current = [c \in CallIds |-> 0]
    /\ storeFailed = [c \in CallIds |-> FALSE]
    /\ isAllowed = [c \in CallIds |-> FALSE]
    /\ invoked = [c \in CallIds |-> 0]
    /\ sent = [c \in CallIds |-> 0]
    /\ request = [c \in CallIds |-> NoRequest]
    /\ response = [c \in CallIds |-> Unanswered]
    /\ outcome = [c \in CallIds |-> NoOutcome]
    /\ caught = [c \in CallIds |-> NoError]
    /\ turn = [c \in CallIds |-> 0]

\* The server has started, with or without Redis; the store is empty and
\* NumCalls calls are about to arrive.
Init ==
    /\ storeConfigured \in BOOLEAN
    /\ redis = [k \in Keys |-> NoKey]
    /\ input \in [CallIds -> GatewayInputs]
    /\ InitCalls(CallIds)
    /\ process = Started

\* One call arrives.  The store is empty, or the counter of the call's tool
\* already stands at the quota, in a window other calls opened.
InitContract ==
    /\ storeConfigured \in BOOLEAN
    /\ \E i \in ContractInputs : input = [c \in CallIds |-> i]
    /\ redis \in {[k \in Keys |-> NoKey],
                  [k \in Keys |->
                      IF storeConfigured /\ k = CounterKey(input[1].name)
                      THEN [count |-> MaxCount, expireAt |-> Ttl * MsPerSecond,
                            windowStart |-> 0]
                      ELSE NoKey]}
    /\ InitCalls({1})
    /\ process = Started

(***************************************************************************)
(* The CallTool handler (server.ts:66-276), one action per step between    *)
(* two awaits.                                                             *)
(***************************************************************************)
\* const requestId = `req-${Date.now()}-${Math.random()...}`
Receive(c) ==
    /\ pc[c] = "waiting"
    /\ \A d \in CallIds : d < c => pc[d] # "waiting"
    /\ \E r \in 1..RandomSpace :
          requestId' = [requestId EXCEPT ![c] = [src |-> "gateway", ms |-> now, rnd |-> r]]
    /\ pc' = [pc EXCEPT ![c] = "admission"]
    /\ UNCHANGED <<caught, process>>
    /\ UNCHANGED <<storeConfigured, redis, now, failures, input, current, storeFailed,
                   isAllowed, invoked, sent, request, response, outcome, turn>>

\* The calls whose admission check has begun: they are past the call of
\* checkCustomLimit.
Checking == {"expire", "dispatch", "backend", "done"}

\* History: the place of the check of call c among the checks made so far
\* for the same tool.
Place(c) ==
    1 + Cardinality({d \in CallIds \ {c} : NameOf(d) = NameOf(c) /\ pc[d] \in Checking})

\* checkCustomLimit without a store: return true.
AdmitWithoutStore(c) ==
    /\ pc[c] = "admission"
    /\ ~storeConfigured
    /\ isAllowed' = [isAllowed EXCEPT ![c] = TRUE]
    /\ pc' = [pc EXCEPT ![c] = "dispatch"]
    /\ turn' = [turn EXCEPT ![c] = Place(c)]
    /\ UNCHANGED <<caught, process>>
    /\ UNCHANGED <<storeConfigured, redis, now, failures, input, requestId, current,
                   storeFailed, invoked, sent, request, response, outcome>>

\* store.increment returns count; checkCustomLimit returns count <= limit.
Checked(c, count) ==
    /\ current' = [current EXCEPT ![c] = count]
    /\ isAllowed' = [isAllowed EXCEPT ![c] = WithinLimit(count, MaxCount)]
    /\ pc' = [pc EXCEPT ![c] = "dispatch"]

\* redisClient.incr(key) succeeds.
Incr(c) ==
    /\ pc[c] = "admission"
    /\ storeConfigured
    /\ LET k == KeyOf(c)
           count == Incremented(redis[k].count)
       IN  /\ redis' = [redis EXCEPT ![k].count = count]
           /\ IF SetsExpiry(count)
              THEN /\ current' = [current EXCEPT ![c] = count]
                   /\ pc' = [pc EXCEPT ![c] = "expire"]
                   /\ UNCHANGED isAllowed
              ELSE Checked(c, count)
    /\ turn' = [turn EXCEPT ![c] = Place(c)]
    /\ UNCHANGED <<caught, process>>
    /\ UNCHANGED <<storeConfigured, now, failures, input, requestId, storeFailed,
                   invoked, sent, request, response, outcome>>

\* redisClient.incr(key) rejects: the catch clause answers for it.
IncrFails(c) ==
    /\ pc[c] = "admission"
    /\ storeConfigured
    /\ failures < MaxStoreFailures
    /\ failures' = failures + 1
    /\ storeFailed' = [storeFailed EXCEPT ![c] = TRUE]
    /\ Checked(c, IncrementOnError)
    /\ turn' = [turn EXCEPT ![c] = Place(c)]
    /\ UNCHANGED <<caught, process>>
    /\ UNCHANGED <<storeConfigured, redis, now, input, requestId, invoked, sent,
                   request, response, outcome>>

\* redisClient.expire(key, ttl) succeeds.
Expire(c) ==
    /\ pc[c] = "expire"
    /\ redis' = [redis EXCEPT ![KeyOf(c)] =
                    IF @.count = 0 THEN @
                    ELSE [@ EXCEPT !.expireAt = now + Ttl * MsPerSecond,
                                   !.windowStart = now]]
    /\ Checked(c, current[c])
    /\ UNCHANGED <<caught, process>>
    /\ UNCHANGED <<storeConfigured, now, failures, input, requestId, storeFailed,
                   invoked, sent, request, response, outcome, turn>>

\* redisClient.expire(key, ttl) rejects: the catch clause answers for it.
ExpireFails(c) ==
    /\ pc[c] = "expire"
    /\ failures < MaxStoreFailures
    /\ failures' = failures + 1
    /\ storeFailed' = [storeFailed EXCEPT ![c] = TRUE]
    /\ redis' = [redis EXCEPT ![KeyOf(c)] =
                    IF @.count = 0 THEN @ ELSE [@ EXCEPT !.windowStart = now]]
    /\ Checked(c, IncrementOnError)
    /\ UNCHANGED <<caught, process>>
    /\ UNCHANGED <<storeConfigured, now, input, requestId, invoked, sent,
                   request, response, outcome, turn>>

\* A catch clause that returns the descriptor as an envelope instead.
CaughtReturned(error) ==
    LET errorInfo == ErrorHandlerHandle(error) IN
    [kind |-> "return", success |-> FALSE, hasData |-> FALSE, hasError |-> TRUE,
     requestId |-> NoId,
     mcpCode |-> "", statusCode |-> errorInfo.statusCode,
     code |-> errorInfo.code, message |-> errorInfo.message]

\* The catch clause of the handler: classify, then throw an McpError that
\* carries the descriptor.
Caught(error) ==
    LET errorInfo == ErrorHandlerHandle(error) IN
    [kind |-> "throw", success |-> FALSE, hasData |-> FALSE, hasError |-> FALSE,
     requestId |-> NoId,
     mcpCode |-> "InternalError", statusCode |-> errorInfo.statusCode,
     code |-> errorInfo.code,
     message |-> "Tool execution failed: " \o errorInfo.message]

\* A catch clause that runs the switch again.
AfterFailureRetry == "dispatch"

\* Where the handler stands after its catch clause: the McpError leaves the
\* handler, nothing is run again.
AfterFailure == "done"

Fail(c, error) ==
    /\ caught' = [caught EXCEPT ![c] = error]
    /\ outcome' = [outcome EXCEPT ![c] = Caught(error)]
    /\ pc' = [pc EXCEPT ![c] = AfterFailure]
    /\ UNCHANGED process

\* if (!isAllowed) throw new McpError(ErrorCode.InternalError, ...)
Deny(c) ==
    /\ pc[c] = "dispatch"
    /\ Denied(isAllowed[c])
    /\ Fail(c, McpError("InternalError", "Rate limit exceeded for this tool"))
    /\ UNCHANGED <<storeConfigured, redis, now, failures, input, requestId, current,
                   storeFailed, isAllowed, invoked, sent, request, response, turn>>

\* default: throw new McpError(ErrorCode.MethodNotFound, ...)
UnknownTool(c) ==
    /\ pc[c] = "dispatch"
    /\ ~Denied(isAllowed[c])
    /\ NameOf(c) \notin SwitchCases
    /\ Fail(c, McpError("MethodNotFound", "Unknown tool: " \o NameOf(c)))
    /\ UNCHANGED <<storeConfigured, redis, now, failures, input, requestId, current,
                   storeFailed, isAllowed, invoked, sent, request, response, turn>>

\* args.<field> with no arguments: the case throws before it calls the
\* manager.
ArgumentsMissing(c) ==
    /\ pc[c] = "dispatch"
    /\ ~Denied(isAllowed[c])
    /\ NameOf(c) \in SwitchCases
    /\ ~input[c].args.present
    /\ Fail(c, TypeError("Cannot read properties of undefined"))
    /\ UNCHANGED <<storeConfigured, redis, now, failures, input, requestId, current,
                   storeFailed, isAllowed, invoked, sent, request, response, turn>>

Dispatches(c) ==
    /\ pc[c] = "dispatch"
    /\ ~Denied(isAllowed[c])
    /\ NameOf(c) \in SwitchCases
    /\ input[c].args.present

\* The manager method throws before it sends anything; handleAsync
\* rethrows.
HandlerThrows(c) ==
    /\ Dispatches(c)
    /\ LET r == CallManager(NameOf(c), input[c].args.f) IN
          /\ r.kind = "throw"
          /\ Fail(c, HandleAsyncRethrow(r.error))
    /\ invoked' = [invoked EXCEPT ![c] = @ + 1]
    /\ UNCHANGED <<storeConfigured, redis, now, failures, input, requestId, current,
                   storeFailed, isAllowed, sent, request, response, turn>>

\* The manager method sends its request and awaits the response.
HandlerSends(c) ==
    /\ Dispatches(c)
    /\ LET r == CallManager(NameOf(c), input[c].args.f) IN
          /\ r.kind = "request"
          /\ request' = [request EXCEPT ![c] = r.request]
    /\ invoked' = [invoked EXCEPT ![c] = @ + 1]
    /\ sent' = [sent EXCEPT ![c] = @ + 1]
    /\ pc' = [pc EXCEPT ![c] = "backend"]
    /\ UNCHANGED <<caught, process>>
    /\ UNCHANGED <<storeConfigured, redis, now, failures, input, requestId, current,
                   storeFailed, isAllowed, response, outcome, turn>>

(***************************************************************************)
(* The backend's answer, through the response interceptor of the manager   *)
(* that sent the request (setupInterceptors).                              *)
(***************************************************************************)
\* The statuses the backend answers with; NoResponse is a request that
\* ends without a response (a timeout, a connection error).
NoResponse == 0
SuccessStatuses == {200}
FailureStatuses == {400, 404, 500, 503}

\* new NotFoundError(<resource>) of each manager's interceptor.
ResourceOf(tool) ==
    IF \E i \in 1..Len(sceneManagementTools) : sceneManagementTools[i] = tool
    THEN "Scene"
    ELSE IF \E i \in 1..Len(objectManipulationTools) : objectManipulationTools[i] = tool
    THEN "Object"
    ELSE IF \E i \in 1..Len(animationControlTools) : animationControlTools[i] = tool
    THEN "Animation or Variable"
    ELSE "Export job or scene"

\* An interceptor without the 404 branch.
InterceptorErrorGeneric(tool, status) ==
    IF status # NoResponse /\ status >= 400 /\ status < 500
    THEN SplineApiError("Client error", status)
    ELSE IF status # NoResponse /\ status >= 500
    THEN SplineApiError("Server error", status)
    ELSE SplineApiError("Request failed", InternalStatus)

\* The error the response interceptor throws for a failed request.
InterceptorError(tool, status) ==
    IF status = NotFoundStatus THEN NotFoundError(ResourceOf(tool))
    ELSE IF status # NoResponse /\ status >= 400 /\ status < 500
    THEN SplineApiError("Client error", status)
    ELSE IF status # NoResponse /\ status >= 500
    THEN SplineApiError("Server error", status)
    ELSE SplineApiError("Request failed", InternalStatus)

\* The methods whose ApiResponse has no data field: they return
\* {success, timestamp, requestId: uuidv4()}.
VoidTools ==
    {"spline_delete_scene", "spline_delete_object", "spline_play_animation",
     "spline_pause_animation", "spline_stop_animation", "spline_create_transition",
     "spline_cancel_export"}

\* A manager whose every method returns its response body as data.
ReturnedWithData(tool) ==
    [kind |-> "return", success |-> TRUE, hasData |-> TRUE, hasError |-> FALSE,
     requestId |-> [src |-> IF tool \in VoidTools THEN "uuidv4" ELSE "interceptor",
                    ms |-> 0, rnd |-> 0],
     mcpCode |-> "", statusCode |-> 0, code |-> "", message |-> ""]

\* What the handler returns: the manager's ApiResponse as JSON text.  Its
\* requestId is the X-Request-ID of the backend request, or a fresh uuid.
Returned(tool) ==
    [kind |-> "return", success |-> TRUE, hasData |-> tool \notin VoidTools,
     hasError |-> FALSE,
     requestId |-> [src |-> IF tool \in VoidTools THEN "uuidv4" ELSE "interceptor",
                    ms |-> 0, rnd |-> 0],
     mcpCode |-> "", statusCode |-> 0, code |-> "", message |-> ""]

BackendSucceeds(c) ==
    /\ pc[c] = "backend"
    /\ \E status \in SuccessStatuses :
          /\ response' = [response EXCEPT ![c] = status]
          /\ outcome' = [outcome EXCEPT ![c] = Returned(NameOf(c))]
    /\ pc' = [pc EXCEPT ![c] = "done"]
    /\ UNCHANGED <<caught, process>>
    /\ UNCHANGED <<storeConfigured, redis, now, failures, input, requestId, current,
                   storeFailed, isAllowed, invoked, sent, request, turn>>

BackendFails(c) ==
    /\ pc[c] = "backend"
    /\ \E status \in FailureStatuses \cup {NoResponse} :
          /\ response' = [response EXCEPT ![c] = status]
          /\ Fail(c, HandleAsyncRethrow(InterceptorError(NameOf(c), status)))
    /\ UNCHANGED <<storeConfigured, redis, now, failures, input, requestId, current,
                   storeFailed, isAllowed, invoked, sent, request, turn>>

(***************************************************************************)
(* Time: a second passes; Redis drops the keys whose expiry has come.      *)
(***************************************************************************)
Expired(entry, time) == entry.expireAt # NoExpiry /\ entry.expireAt <= time

Tick ==
    /\ now < MaxTicks * MsPerSecond
    /\ now' = now + MsPerSecond
    /\ redis' = [k \in Keys |-> IF Expired(redis[k], now') THEN NoKey ELSE redis[k]]
    /\ UNCHANGED <<caught, process>>
    /\ UNCHANGED <<storeConfigured, failures, pc, input, requestId, current,
                   storeFailed, isAllowed, invoked, sent, request, response, outcome, turn>>

Next ==
    \/ \E c \in CallIds :
          \/ Receive(c)
          \/ AdmitWithoutStore(c)
          \/ Incr(c)
          \/ IncrFails(c)
          \/ Expire(c)
          \/ ExpireFails(c)
          \/ Deny(c)
          \/ UnknownTool(c)
          \/ ArgumentsMissing(c)
          \/ HandlerThrows(c)
          \/ HandlerSends(c)
          \/ BackendSucceeds(c)
          \/ BackendFails(c)
    \/ Tick

Spec == Init /\ [][Next]_vars
SpecContract == InitContract /\ [][Next]_vars

(***************************************************************************)
(* Properties of the handler.                                              *)
(***************************************************************************)
Finished(c) == pc[c] = "done"
PastAdmission(c) == pc[c] \in {"dispatch", "backend", "done"}
Unregistered(c) == NameOf(c) \notin SwitchCases
Answered(c) == isAllowed[c] /\ sent[c] = 1 /\ response[c] \in SuccessStatuses

DenialIsRateLimited ==
    \A c \in CallIds :
       Finished(c) /\ ~isAllowed[c] =>
          /\ outcome[c].statusCode = RateLimitStatus
          /\ outcome[c].code = "RATE_LIMIT_EXCEEDED"

\* C3: an admitted call that names no registered tool ends with the
\* unknown-operation classification, status 404.
UnknownIsNotFound ==
    \A c \in CallIds :
       Finished(c) /\ isAllowed[c] /\ Unregistered(c) =>
          outcome[c].statusCode = NotFoundStatus

\* C4: a call that was denied admission, or that names no registered tool,
\* has invoked no manager method and has sent no request to the backend,
\* whatever the other calls did meanwhile.
ShortCircuit ==
    \A c \in CallIds :
       PastAdmission(c) /\ (~isAllowed[c] \/ Unregistered(c)) =>
          /\ invoked[c] = 0
          /\ sent[c] = 0
          /\ request[c] = NoRequest
          /\ pc[c] # "backend"

\* A call to a registered tool, with arguments its manager accepts, was
\* denied and has finished.
ShortCircuitWitness ==
    \E c \in CallIds :
       /\ Finished(c) /\ ~isAllowed[c] /\ ~Unregistered(c)
       /\ input[c].args.present
       /\ CallManager(NameOf(c), input[c].args.f).kind = "request"

(***************************************************************************)
(* Properties of the admission check.                                      *)
(***************************************************************************)
\* No key can have expired yet: every check so far was made before the
\* first window could end.
InFirstWindow == now < WindowMs

\* No command sent to Redis has failed.
StoreHealthy == storeConfigured /\ failures = 0

\* The calls to one tool whose admission check has answered.
CheckedCalls(name) == {c \in CallIds : NameOf(c) = name /\ PastAdmission(c)}

InTurn(c) == isAllowed[c] <=> turn[c] <= MaxCount

WindowElapsed(k) ==
    /\ redis[k].windowStart # NotStarted
    /\ now > redis[k].windowStart + WindowMs

\* C6: once the window of a key has elapsed, the next check on the key
\* counts 1, in a fresh window, and is admitted.
FreshWindowAfterExpiry ==
    [][\A c \in CallIds :
          (/\ pc[c] = "admission"
           /\ pc'[c] # "admission"
           /\ storeConfigured
           /\ WindowElapsed(KeyOf(c)))
          => /\ current'[c] = 1
             /\ (pc'[c] = "dispatch" => isAllowed'[c])]_vars

Admitted(cs) == {c \in cs : isAllowed[c]}

OwnQuota ==
    /\ [](\A c \in CallIds : PastAdmission(c) /\ turn[c] <= MaxCount => isAllowed[c])
    /\ [][\A c \in CallIds :
            pc'[c] # pc[c] =>
               \A name \in CallNames \ {NameOf(c)} :
                  redis'[CounterKey(name)] = redis[CounterKey(name)]]_vars

\* Calls to two tools were both admitted, each by the counter of its own
\* tool, and both counters stand at the quota.
OwnQuotaWitness ==
    /\ storeConfigured
    /\ \E c, d \in CallIds :
          /\ NameOf(c) # NameOf(d)
          /\ PastAdmission(c) /\ isAllowed[c] /\ ~storeFailed[c]
          /\ PastAdmission(d) /\ isAllowed[d] /\ ~storeFailed[d]
          /\ current[c] = MaxCount /\ current[d] = MaxCount
          /\ redis[KeyOf(c)].count = MaxCount
          /\ redis[KeyOf(d)].count = MaxCount

(***************************************************************************)
(* Properties of the input contracts.                                      *)
(***************************************************************************)
\* The call names a registered tool and leaves out a field the tool's
\* inputSchema requires, or gives null for it, or has no arguments at all.
RequiredFieldMissing(c) ==
    /\ ~Unregistered(c)
    /\ \/ ~input[c].args.present
       \/ \E f \in RequiredFields(NameOf(c)) : IsNullish(input[c].args.f[f])

\* C10: an admitted call that lacks a required field sends no request to
\* the backend and ends in a validation failure, status 400.
MissingFieldIsRejected ==
    \A c \in CallIds :
       isAllowed[c] /\ RequiredFieldMissing(c) =>
          /\ sent[c] = 0
          /\ (Finished(c) => outcome[c].statusCode = ValidationStatus)

\* str has sub as a substring.
Contains(str, sub) ==
    \E i \in 1..(Len(str) + 1 - Len(sub)) : SubSeq(str, i, i + Len(sub) - 1) = sub

\* The ways a validation message names a field: Joi quotes the key, the
\* managers' own messages use a phrase.
FieldPhrases(f) ==
    {Quoted(f)}
    \cup (CASE f = "sceneId" -> {"scene ID"}
            [] f = "jobId" -> {"job ID"}
            [] f = "objectId" -> {"Object ID"}
            [] f = "name" -> {"name"}
            [] f = "animationName" -> {"Animation name"}
            [] f = "variableName" -> {"Variable name"}
            [] f = "properties" -> {"Properties"}
            [] f = "duration" -> {"Duration"}
            [] OTHER -> {})

Mentions(message, f) == \E phrase \in FieldPhrases(f) : Contains(message, phrase)

\* The fields of the call that violate the tool's contract by being absent
\* though required, or by being an id that is no UUID.
ViolatingFields(c) ==
    {f \in RequiredFields(NameOf(c)) : IsNullish(input[c].args.f[f])}
    \cup {f \in DeclaredFields(NameOf(c)) \cap {"sceneId", "jobId"} :
             ~isValidUUID(input[c].args.f[f])}

\* C11: when several fields of a call violate the contract, the message of
\* the validation failure names every one of them.
NamesEveryViolation ==
    \A c \in CallIds :
       (/\ Finished(c) /\ isAllowed[c] /\ ~Unregistered(c) /\ input[c].args.present
        /\ outcome[c].statusCode = ValidationStatus
        /\ Cardinality(ViolatingFields(c)) >= 2)
       => \A f \in ViolatingFields(c) : Mentions(outcome[c].message, f)

(***************************************************************************)
(* The declared input contracts: the property schemas of the inputSchema   *)
(* of each Tool.                                                           *)
(***************************************************************************)
\* type
SchemaType(f) ==
    CASE f \in {"limit", "offset", "duration", "width", "height", "fps"} -> "number"
      [] f \in {"position", "rotation", "scale", "properties"} -> "object"
      [] f = "visible" -> "boolean"
      [] f = "value" -> "any"
      [] OTHER -> "string"

\* minimum and maximum of a number, minLength and maxLength of a string;
\* a bound the schema leaves out is lo = 0 or unbounded.
SchemaBounds(tool, f) ==
    CASE f = "limit" -> [lo |-> 1, hi |-> 100, unbounded |-> FALSE]
      [] f = "offset" -> [lo |-> 0, hi |-> 0, unbounded |-> TRUE]
      [] f \in {"width", "height"} -> [lo |-> 100, hi |-> 4096, unbounded |-> FALSE]
      [] f = "fps" -> [lo |-> 1, hi |-> 60, unbounded |-> FALSE]
      [] f = "duration" ->
            [lo |-> 1, hi |-> IF tool = "spline_create_transition" THEN 60000 ELSE 300,
             unbounded |-> FALSE]
      [] f \in {"name", "newName"} ->
            [lo |-> 1, hi |-> IF tool = "spline_set_variable" THEN 50 ELSE 100,
             unbounded |-> FALSE]
      [] f = "variableName" -> [lo |-> 1, hi |-> 50, unbounded |-> FALSE]
      [] f = "animationName" -> [lo |-> 1, hi |-> 0, unbounded |-> TRUE]
      [] f = "description" -> [lo |-> 0, hi |-> 500, unbounded |-> FALSE]
      [] OTHER -> [lo |-> 0, hi |-> 0, unbounded |-> TRUE]

\* enum; the empty set where the schema has none.
SchemaEnum(tool, f) ==
    CASE f = "type" /\ tool = "spline_set_variable" ->
            {"string", "number", "boolean", "color", "vector3"}
      [] f = "type" -> {"mesh", "light", "camera", "group", "text", "spline"}
      [] f = "easing" ->
            {"linear", "ease", "ease-in", "ease-out", "ease-in-out", "bounce", "elastic"}
      [] f = "format" -> {"gltf", "obj", "fbx", "image", "video"}
      [] f = "quality" -> {"low", "medium", "high"}
      [] OTHER -> {}

\* pattern: the UUID pattern of the schemas has no i flag.
SchemaPattern(str) ==
    /\ UuidPatternMatches(str)
    /\ \A i \in 1..Len(str) : CharAt(str, i) \notin {"A", "B", "C", "D", "E", "F"}

\* A value that is present satisfies the property schema of field f.
SchemaAccepts(tool, f, v) ==
    LET bounds == SchemaBounds(tool, f)
        within(k) == k >= bounds.lo /\ (bounds.unbounded \/ k <= bounds.hi)
    IN  CASE SchemaType(f) = "number" -> v.t = "number" /\ ~IsNaN(v) /\ within(v.n)
          [] SchemaType(f) = "boolean" -> v.t = "boolean"
          [] SchemaType(f) = "object" ->
                /\ v.t = "object"
                /\ (tool = "spline_create_object" /\ f # "properties"
                      => {"x", "y", "z"} \subseteq KeysOf(v.s))
          [] SchemaType(f) = "string" ->
                /\ v.t = "string"
                /\ within(Len(v.s))
                /\ (SchemaEnum(tool, f) # {} => v.s \in SchemaEnum(tool, f))
                /\ (f \in {"sceneId", "jobId"} => SchemaPattern(v.s))
          [] OTHER -> TRUE

\* Some argument of the call is present and violates its property schema.
ContractViolated(c) ==
    \E f \in DeclaredFields(NameOf(c)) :
       /\ ~IsNullish(input[c].args.f[f])
       /\ ~SchemaAccepts(NameOf(c), f, input[c].args.f[f])

\* C12: an admitted call in which a present argument violates the declared
\* contract of its tool sends no request to the backend and ends in a
\* validation failure, status 400.
ContractViolationIsRejected ==
    \A c \in CallIds :
       (/\ isAllowed[c] /\ ~Unregistered(c) /\ input[c].args.present
        /\ ContractViolated(c))
       => /\ sent[c] = 0
          /\ (Finished(c) => outcome[c].statusCode = ValidationStatus)

(***************************************************************************)
(* Properties of the classification of backend failures.                   *)
(***************************************************************************)
ClientStatuses == {status \in FailureStatuses : status >= 400 /\ status < 500} \ {NotFoundStatus}
ServerStatuses == {status \in FailureStatuses : status >= 500 /\ status < 600}

\* C13: a call whose request the backend answered with 404 fails with
\* code NOT_FOUND and status 404, not with the client-error
\* classification.
NotFoundIsClassified ==
    \A c \in CallIds :
       Finished(c) /\ response[c] = NotFoundStatus =>
          /\ outcome[c].kind = "throw"
          /\ outcome[c].statusCode = NotFoundStatus
          /\ outcome[c].code = "NOT_FOUND"
          /\ outcome[c].message =
                "Tool execution failed: " \o ResourceOf(NameOf(c)) \o " not found"

\* A request of the export manager was answered with 404.
NotFoundIsClassifiedWitness ==
    \E c \in CallIds :
       /\ Finished(c) /\ response[c] = NotFoundStatus
       /\ ResourceOf(NameOf(c)) = "Export job or scene"
       /\ outcome[c].code = "NOT_FOUND"

ThrownValue(v) ==
    [class |-> v.t, spline |-> FALSE, name |-> "", statusCode |-> 0, code |-> "",
     message |-> ""]

\* An Error of another library, known by its name.
NamedError(name, message) ==
    [class |-> "Error", spline |-> FALSE, name |-> name, statusCode |-> 0,
     code |-> "", message |-> message]

\* error.name, which handle reads once `instanceof SplineError` has said
\* no: reading a property of null or undefined raises a TypeError.
ReadingNameRaises(error) == ~error.spline /\ error.class \in {"null", "undefined"}

ThrownStatuses == 400..599
ThrownMessages == {"Client error", "Server error"}
ThrownValues ==
    {SplineApiError(m, status) : m \in ThrownMessages, status \in ThrownStatuses}
    \cup {SplineError(m, InternalStatus, "INTERNAL_ERROR") : m \in ThrownMessages}
    \cup {ValidationError("Invalid scene ID format"), NotFoundError("Scene"),
          RateLimitError, TypeError("Cannot read properties of undefined"),
          McpError("InternalError", "Rate limit exceeded for this tool"),
          McpError("MethodNotFound", "Unknown tool: spline_unknown_tool")}
    \cup {NamedError(name, "failed") :
             name \in {"Error", "ValidationError", "JsonWebTokenError",
                       "TokenExpiredError"}}
    \cup {ThrownValue(v) : v \in {Null, Undefined, Str("boom"), Num(7)}}

\* One value has been thrown and caught; handle is about to be applied
\* to it.
InitClassify ==
    /\ storeConfigured = FALSE
    /\ redis = [k \in Keys |-> NoKey]
    /\ input = [c \in CallIds |-> [name |-> "spline_list_scenes", args |-> NoArgs]]
    /\ now = 0
    /\ failures = 0
    /\ pc = [c \in CallIds |-> IF c = 1 THEN "caught" ELSE "unused"]
    /\ requestId = [c \in CallIds |-> NoId]
    /\ current = [c \in CallIds |-> 0]
    /\ storeFailed = [c \in CallIds |-> FALSE]
    /\ isAllowed = [c \in CallIds |-> FALSE]
    /\ invoked = [c \in CallIds |-> 0]
    /\ sent = [c \in CallIds |-> 0]
    /\ request = [c \in CallIds |-> NoRequest]
    /\ response = [c \in CallIds |-> Unanswered]
    /\ outcome = [c \in CallIds |-> NoOutcome]
    /\ turn = [c \in CallIds |-> 0]
    /\ process = Started
    /\ \E error \in ThrownValues :
          caught = [c \in CallIds |-> IF c = 1 THEN error ELSE NoError]

\* What handle returned.
Descriptor(errorInfo) ==
    [kind |-> "descriptor", success |-> FALSE, hasData |-> FALSE, hasError |-> FALSE,
     requestId |-> NoId,
     mcpCode |-> "", statusCode |-> errorInfo.statusCode, code |-> errorInfo.code,
     message |-> errorInfo.message]

\* What handle raised.
Raised(error) ==
    [kind |-> "throw", success |-> FALSE, hasData |-> FALSE, hasError |-> FALSE,
     requestId |-> NoId,
     mcpCode |-> "", statusCode |-> 0, code |-> error.name, message |-> error.message]

\* handle returns a descriptor.
HandleReturns(c) ==
    /\ pc[c] = "caught"
    /\ ~ReadingNameRaises(caught[c])
    /\ outcome' = [outcome EXCEPT ![c] = Descriptor(ErrorHandlerHandle(caught[c]))]
    /\ pc' = [pc EXCEPT ![c] = "classified"]
    /\ UNCHANGED <<storeConfigured, redis, now, failures, input, requestId, current,
                   storeFailed, isAllowed, invoked, sent, request, response, caught,
                   turn, process>>

\* handle raises a TypeError at error.name.
HandleRaises(c) ==
    /\ pc[c] = "caught"
    /\ ReadingNameRaises(caught[c])
    /\ outcome' = [outcome EXCEPT ![c] =
                      Raised(TypeError("Cannot read properties of "
                                       \o caught[c].class \o " (reading 'name')"))]
    /\ pc' = [pc EXCEPT ![c] = "classified"]
    /\ UNCHANGED <<storeConfigured, redis, now, failures, input, requestId, current,
                   storeFailed, isAllowed, invoked, sent, request, response, caught,
                   turn, process>>

NextClassify == \E c \in CallIds : HandleReturns(c) \/ HandleRaises(c)

SpecClassify == InitClassify /\ [][NextClassify]_vars

\* C15: whatever value was caught, handle returns a descriptor with a
\* status, a code and a message; it never raises.
HandleIsTotal ==
    \A c \in CallIds :
       pc[c] = "classified" =>
          /\ outcome[c].kind = "descriptor"
          /\ outcome[c].statusCode >= 400
          /\ outcome[c].code # ""
          /\ outcome[c].message # ""

(***************************************************************************)
(* The envelope of a call.                                                 *)
(***************************************************************************)
Enveloped(c) == Finished(c) /\ outcome[c].kind = "return"

Received(c) == pc[c] \notin {"waiting", "unused"}

\* C17: in every branch of a call, the response carries the correlation id the
\* handler generated when it received that call.
CorrelationIdIsEchoed ==
    \A c \in CallIds : Finished(c) => outcome[c].requestId = requestId[c]

\* C18: no two calls that were received are assigned the same correlation id,
\* even when they are received in the same millisecond.
CorrelationIdsAreUnique ==
    \A c, d \in CallIds :
        Received(c) /\ Received(d) /\ c # d => requestId[c] # requestId[d]

(***************************************************************************)
(* One handler, one request, no retry.                                     *)
(***************************************************************************)
Failed(c) == Finished(c) /\ outcome[c].kind = "throw"

AtMostOnce ==
    \A c \in CallIds : invoked[c] <= 1 /\ sent[c] <= 1 /\ sent[c] <= invoked[c]

NoStepAfterFailure ==
    \A c \in CallIds :
        Failed(c) =>
            /\ invoked'[c] = invoked[c]
            /\ sent'[c] = sent[c]
            /\ request'[c] = request[c]
            /\ pc'[c] = pc[c]

\* C19: within one call at most one manager method is invoked, at most once,
\* and it sends at most one backend request; once the call has failed, in the
\* handler or at the backend, nothing is invoked or sent for it again.
NoRetry == []AtMostOnce /\ [][NoStepAfterFailure]_vars

NoRetryWitness ==
    \E c \in CallIds :
        /\ Failed(c)
        /\ invoked[c] = 1
        /\ sent[c] = 1
        /\ response[c] \in FailureStatuses
        /\ \A d \in CallIds : Finished(d)

(***************************************************************************)
(* Progress.  The steps of the handler itself run whenever they can: they  *)
(* are synchronous code between two awaits.  The backend request settles,  *)
(* with a response or with the error of the axios timeout the managers are *)
(* built with.  The commands sent to Redis are awaited with no timeout     *)
(* (store.increment), so nothing obliges Incr or Expire to happen.         *)
(***************************************************************************)
HandlerProgress(c) ==
    \/ AdmitWithoutStore(c)
    \/ Deny(c)
    \/ UnknownTool(c)
    \/ ArgumentsMissing(c)
    \/ HandlerThrows(c)
    \/ HandlerSends(c)
    \/ BackendSucceeds(c)
    \/ BackendFails(c)

SpecLive == Spec /\ \A c \in CallIds : WF_vars(HandlerProgress(c))

\* C20: every call that has been received is eventually answered, by a
\* returned envelope or a thrown error.
EveryCallIsAnswered ==
    \A c \in CallIds : Received(c) ~> Finished(c)

(***************************************************************************)
(* Failures that are neither a validation failure, a not-found signal nor  *)
(* a backend 4xx/5xx response.                                             *)
(***************************************************************************)
\* The request got no response: a timeout or a transport error.
TransportFailure(c) == Finished(c) /\ sent[c] = 1 /\ response[c] = NoResponse

\* A TypeError raised in the switch, before any manager method ran.
DispatcherFault(c) ==
    Finished(c) /\ invoked[c] = 0 /\ caught[c].class = "TypeError"

\* An error that is not a SplineError raised inside a manager method.
HandlerFault(c) ==
    /\ Finished(c)
    /\ invoked[c] = 1
    /\ sent[c] = 0
    /\ ~CallManager(NameOf(c), input[c].args.f).error.spline

\* C21: a timeout, a transport error with no response, and a programming
\* error raised in a handler or in the dispatcher are all reported with the
\* code INTERNAL_ERROR and status 500.
OtherFailuresAreInternal ==
    \A c \in CallIds :
        TransportFailure(c) \/ DispatcherFault(c) \/ HandlerFault(c) =>
            /\ outcome[c].statusCode = InternalStatus
            /\ outcome[c].code = "INTERNAL_ERROR"

\* The same, of the programming errors alone.
FaultsAreInternal ==
    \A c \in CallIds :
        DispatcherFault(c) \/ HandlerFault(c) =>
            /\ outcome[c].statusCode = InternalStatus
            /\ outcome[c].code = "INTERNAL_ERROR"

(***************************************************************************)
(* The registry: the tools listed and the cases of the switch.             *)
(***************************************************************************)
\* The call reached the switch with arguments to read.
Routed(c) == Finished(c) /\ isAllowed[c] /\ input[c].args.present

\* C22: the names the listing returns are the names the switch has a case
\* for, no name is listed twice, and a call that reaches the switch has a
\* manager method invoked exactly when its name is one of the listed names.
RegistryIsExact ==
    /\ ListedNames = SwitchCases
    /\ Cardinality(ListedNames) = Len(ListedTools)
    /\ \A c \in CallIds :
          Routed(c) => (invoked[c] = 1 <=> NameOf(c) \in ListedNames)

RegistryIsExactWitness ==
    \E c \in CallIds :
        /\ Routed(c)
        /\ NameOf(c) = "spline_get_preview_image"
        /\ invoked[c] = 1

(***************************************************************************)
(* The kinds of error a call can report.                                   *)
(***************************************************************************)
ErrorKinds ==
    {"VALIDATION", "NOT_FOUND", "BACKEND_CLIENT_ERROR", "BACKEND_SERVER_ERROR",
     "RATE_LIMITED", "UNKNOWN_OPERATION", "INTERNAL"}

\* The kind a thrown outcome shows its caller: the code of the McpError and the
\* descriptor {statusCode, code} it carries.
KindOf(o) ==
    CASE o.mcpCode = "MethodNotFound" -> "UNKNOWN_OPERATION"
      [] o.mcpCode # "MethodNotFound" /\ o.code = "VALIDATION_ERROR" -> "VALIDATION"
      [] o.mcpCode # "MethodNotFound" /\ o.code = "NOT_FOUND" -> "NOT_FOUND"
      [] o.mcpCode # "MethodNotFound" /\ o.code = "RATE_LIMIT_EXCEEDED" -> "RATE_LIMITED"
      [] o.mcpCode # "MethodNotFound" /\ o.code = "SPLINE_API_ERROR"
            /\ o.statusCode < InternalStatus -> "BACKEND_CLIENT_ERROR"
      [] o.mcpCode # "MethodNotFound" /\ o.code = "SPLINE_API_ERROR"
            /\ o.statusCode >= InternalStatus -> "BACKEND_SERVER_ERROR"
      [] o.mcpCode # "MethodNotFound" /\ o.code = "INTERNAL_ERROR" -> "INTERNAL"
      [] OTHER -> "none"

\* Every error the catch clause of the handler can be handed: the two
\* McpErrors and the TypeError of the handler itself, what the manager
\* methods throw for the inputs of the contract specification, and what the
\* interceptors throw for the statuses of the backend.
CatchableErrors ==
    {McpError("InternalError", "Rate limit exceeded for this tool"),
     TypeError("Cannot read properties of undefined")}
    \cup {McpError("MethodNotFound", "Unknown tool: " \o i.name) :
             i \in {j \in ContractInputs : j.name \notin SwitchCases}}
    \cup {HandleAsyncRethrow(CallManager(i.name, i.args.f).error) :
             i \in {j \in {k \in ContractInputs :
                              k.name \in SwitchCases /\ k.args.present} :
                       CallManager(j.name, j.args.f).kind = "throw"}}
    \cup {HandleAsyncRethrow(InterceptorError(n, status)) :
             n \in SwitchCases, status \in FailureStatuses \cup {NoResponse}}

ReportedOutcomes == {Caught(error) : error \in CatchableErrors}

\* Every call that failed reports one of these outcomes.
FailuresAreAmongReported ==
    \A c \in CallIds : Failed(c) => outcome[c] \in ReportedOutcomes

\* C23: each of the seven kinds is the kind of an outcome that some call
\* reports: one a call of this state has reported, or one a call can report.
EveryKindIsReported ==
    \A kind \in ErrorKinds :
        \E o \in ReportedOutcomes \cup {outcome[c] : c \in CallIds} : KindOf(o) = kind

(***************************************************************************)
(* The order of the steps of one call.                                     *)
(***************************************************************************)
\* The moves of the handler from one await to the next: the check of the
\* quota, the switch with the checks of the manager method, the request.
StepOrder ==
    {<<"waiting", "admission">>, <<"admission", "expire">>,
     <<"admission", "dispatch">>, <<"expire", "dispatch">>,
     <<"dispatch", "backend">>, <<"dispatch", "done">>, <<"backend", "done">>}

\* Every step of a call follows the order, and no manager method has run
\* before the switch is reached.
StepsInOrder ==
    [][\A c \in CallIds :
          /\ pc'[c] # pc[c] => <<pc[c], pc'[c]>> \in StepOrder
          /\ pc'[c] \in {"waiting", "admission", "expire", "dispatch"} =>
                invoked'[c] = 0 /\ sent'[c] = 0]_vars

\* C24: a call over its quota is reported as rate-limited, with no manager
\* method invoked and no request sent, even when its name is unregistered or
\* its arguments are invalid; and no manager method validates the arguments
\* of an unregistered name.
OverQuotaIsReportedFirst ==
    \A c \in CallIds :
        /\ Finished(c) /\ ~isAllowed[c] =>
              /\ KindOf(outcome[c]) = "RATE_LIMITED"
              /\ invoked[c] = 0
              /\ sent[c] = 0
        /\ Finished(c) /\ Unregistered(c) => invoked[c] = 0

(***************************************************************************)
(* The counter of a key and the calls made with its name.                  *)
(***************************************************************************)
\* The calls with the name of key k whose INCR has been answered.
Counted(k) == {c \in CallIds : KeyOf(c) = k /\ pc[c] \in Checking}

\* Before any key has expired and with no Redis command failed, the counter
\* of each key is the number of calls made with its name.
CounterIsCallCount ==
    InFirstWindow /\ StoreHealthy =>
        \A k \in Keys : redis[k].count = Cardinality(Counted(k))

\* A step changes the counter of a key only by adding one for the one call
\* that left its admission check, or by the expiry of the key; the rest of a
\* call, its denial included, leaves the counter alone.
CountsOncePerCall ==
    \A k \in Keys :
        /\ \A c \in CallIds :
              (/\ KeyOf(c) = k
               /\ pc[c] = "admission"
               /\ pc'[c] # "admission"
               /\ storeConfigured
               /\ ~storeFailed'[c]) => redis'[k].count = redis[k].count + 1
        /\ redis'[k].count # redis[k].count =>
              \/ /\ redis'[k].count = redis[k].count + 1
                 /\ Cardinality({c \in CallIds : KeyOf(c) = k /\ pc[c] = "admission"
                                                   /\ pc'[c] # "admission"}) = 1
              \/ /\ now' # now
                 /\ redis'[k] = NoKey

\* C25: with the store answering and within one window, the counter of a key
\* is the number of calls made with that name; every call adds exactly one,
\* whatever becomes of it, and a denial takes nothing back.
CounterCountsEveryCall == []CounterIsCallCount /\ [][CountsOncePerCall]_vars

CounterCountsEveryCallWitness ==
    \E c \in CallIds :
        /\ StoreHealthy
        /\ InFirstWindow
        /\ Finished(c)
        /\ ~isAllowed[c]
        /\ redis[KeyOf(c)].count = MaxCount + 1
        /\ \A d \in CallIds : Finished(d)

(***************************************************************************)
(* Defaults of the optional arguments.                                     *)
(***************************************************************************)
\* The default the handler or the manager method gives an omitted argument;
\* Undefined where it gives none.
DeclaredDefault(tool, f) ==
    CASE tool = "spline_list_scenes" /\ f = "limit" -> Num(ListLimitDefault)
      [] tool = "spline_list_scenes" /\ f = "offset" -> Num(ListOffsetDefault)
      [] tool = "spline_export_scene" /\ f = "quality" -> Str("medium")
      [] tool = "spline_export_scene" /\ f = "fps" -> Num(ExportFpsDefault)
      [] tool = "spline_get_export_history" /\ f = "limit" -> Num(HistoryLimitDefault)
      [] tool = "spline_get_preview_image" /\ f = "width" -> Num(PreviewWidthDefault)
      [] tool = "spline_get_preview_image" /\ f = "height" -> Num(PreviewHeightDefault)
      [] tool = "spline_create_transition" /\ f = "easing" -> Str("ease")
      [] tool = "spline_create_object" /\ f = "visible" -> Bool(TRUE)
      [] OTHER -> Undefined

\* The call sent a request for which the default of f matters: the fps
\* default is that of a video export.
DefaultApplies(c, f) ==
    /\ sent[c] = 1
    /\ DeclaredDefault(NameOf(c), f) # Undefined
    /\ (NameOf(c) = "spline_export_scene" /\ f = "fps") =>
          input[c].args.f["format"] = Str("video")

\* C26, first half: an omitted optional argument is sent as its default.
OmittedIsDefaulted ==
    \A c \in CallIds : \A f \in Fields :
        DefaultApplies(c, f) /\ input[c].args.f[f] = Undefined =>
            request[c].payload[f] = DeclaredDefault(NameOf(c), f)

\* C26: an omitted optional argument is sent to the backend as its declared
\* default, and an argument the caller supplied with another value is not
\* sent as the default.
DefaultsOnlyWhenOmitted ==
    /\ OmittedIsDefaulted
    /\ \A c \in CallIds : \A f \in Fields :
          (/\ DefaultApplies(c, f)
           /\ input[c].args.f[f] # Undefined
           /\ input[c].args.f[f] # DeclaredDefault(NameOf(c), f)) =>
              request[c].payload[f] # DeclaredDefault(NameOf(c), f)

(***************************************************************************)
(* The numeric ranges of spline_export_scene.                              *)
(***************************************************************************)
ExportRanged == {"width", "height", "fps", "duration"}

\* The call is an admitted spline_export_scene whose arguments the switch
\* has read.
ExportCall(c) ==
    /\ NameOf(c) = "spline_export_scene"
    /\ input[c].args.present
    /\ isAllowed[c]
    /\ pc[c] \in {"backend", "done"}

\* A number was supplied for f that lies outside the range the tool declares.
OutsideDeclaredRange(c, f) ==
    LET v == input[c].args.f[f]
        bounds == SchemaBounds(NameOf(c), f)
    IN  v.t = "number" /\ ~IsNaN(v) /\ (v.n < bounds.lo \/ v.n > bounds.hi)

\* C27: spline_export_scene rejects with a validation failure, before any
\* request, a width or height outside [100, 4096], an fps outside [1, 60] and
\* a duration outside [1, 300]; with every argument supplied and inside its
\* declared contract the request is sent.
ExportRangesAreEnforced ==
    \A c \in CallIds :
        ExportCall(c) =>
            /\ (\E f \in ExportRanged : OutsideDeclaredRange(c, f)) =>
                  /\ sent[c] = 0
                  /\ outcome[c].code = "VALIDATION_ERROR"
            /\ (/\ ~ContractViolated(c)
                /\ \A f \in DeclaredFields(NameOf(c)) : ~IsNullish(input[c].args.f[f]))
                  => sent[c] = 1

\* The same with the ranges the validator enforces: positive, at most the
\* declared maximum.
ExportMaximaAreEnforced ==
    \A c \in CallIds :
        ExportCall(c) =>
            /\ (\E f \in ExportRanged :
                    /\ OutsideDeclaredRange(c, f)
                    /\ \/ input[c].args.f[f].n <= 0
                       \/ input[c].args.f[f].n > SchemaBounds(NameOf(c), f).hi) =>
                  /\ sent[c] = 0
                  /\ outcome[c].code = "VALIDATION_ERROR"
            /\ (/\ ~ContractViolated(c)
                /\ \A f \in DeclaredFields(NameOf(c)) : ~IsNullish(input[c].args.f[f]))
                  => sent[c] = 1

(***************************************************************************)
(* The size of an image or video export.                                   *)
(***************************************************************************)
SizeMissing(c) ==
    input[c].args.f["width"] = Undefined \/ input[c].args.f["height"] = Undefined

\* Nothing but the size can be held against the arguments of the call.
OnlySizeMissing(c) ==
    /\ ~ContractViolated(c)
    /\ \A f \in DeclaredFields(NameOf(c)) \ {"width", "height"} :
          ~IsNullish(input[c].args.f[f])

\* C28: an admitted spline_export_scene of format image or video in which
\* width or height is missing sends no request and fails with a validation
\* error; with format gltf, obj or fbx a call that lacks nothing but width
\* and height sends its request.
SizeIsRequiredForPictures ==
    \A c \in CallIds :
        ExportCall(c) /\ SizeMissing(c) =>
            LET format == input[c].args.f["format"] IN
            /\ format \in {Str("image"), Str("video")} =>
                  /\ sent[c] = 0
                  /\ outcome[c].statusCode = ValidationStatus
                  /\ outcome[c].code = "VALIDATION_ERROR"
            /\ format \in {Str("gltf"), Str("obj"), Str("fbx")} /\ OnlySizeMissing(c) =>
                  sent[c] = 1

SizeIsRequiredForPicturesWitness ==
    \E c \in CallIds :
        /\ ExportCall(c)
        /\ Finished(c)
        /\ input[c].args.f["format"] = Str("image")
        /\ input[c].args.f["width"] = Undefined
        /\ input[c].args.f["height"] = Num(640)
        /\ sent[c] = 0
        /\ outcome[c].code = "VALIDATION_ERROR"

(***************************************************************************)
(* The expiry of the counter keys.                                         *)
(***************************************************************************)
HasTtl(k) ==
    /\ redis[k].expireAt # NoExpiry
    /\ redis[k].expireAt <= now + Ttl * MsPerSecond

\* C29: once store.increment has returned for a call, the key of the call,
\* while it exists, has an expiry at most one window away.
EveryCounterExpires ==
    \A c \in CallIds :
        storeConfigured /\ PastAdmission(c) /\ redis[KeyOf(c)].count > 0 =>
            HasTtl(KeyOf(c))

\* The same where no Redis command has failed.
EveryCounterExpiresWhenHealthy ==
    \A c \in CallIds :
        StoreHealthy /\ PastAdmission(c) /\ redis[KeyOf(c)].count > 0 =>
            HasTtl(KeyOf(c))

(***************************************************************************)
(* Start and shutdown of the process (index.ts).                           *)
(***************************************************************************)
\* emitter.emit(sig): the listeners run in the order they were registered.
\* "exit" logs and calls process.exit(0), which ends the process at once,
\* so no later listener runs.  "shutdown" calls server.close(), whose body
\* only logs, and exits once the awaited promise has settled, after the last
\* listener has returned.
RECURSIVE Emit(_, _)
Emit(listeners, p) ==
    IF p.exited THEN p
    ELSE IF listeners = <<>>
    THEN (IF p.closed THEN [p EXCEPT !.exited = TRUE, !.exitCode = 0] ELSE p)
    ELSE IF Head(listeners) = "exit"
    THEN Emit(Tail(listeners), [p EXCEPT !.exited = TRUE, !.exitCode = 0])
    ELSE Emit(Tail(listeners), [p EXCEPT !.closed = TRUE])

\* One call is about to arrive at a server that is starting; the counter of
\* its tool is empty or already at the quota.
InitShutdown ==
    /\ storeConfigured \in BOOLEAN
    /\ \E i \in GatewayInputs : input = [c \in CallIds |-> i]
    /\ redis \in {[k \in Keys |-> NoKey],
                  [k \in Keys |->
                      IF storeConfigured /\ k = CounterKey(input[1].name)
                      THEN [count |-> MaxCount, expireAt |-> Ttl * MsPerSecond,
                            windowStart |-> 0]
                      ELSE NoKey]}
    /\ InitCalls({1})
    /\ process = Loaded

Gateway ==
    <<storeConfigured, redis, now, failures, pc, input, requestId, current,
      storeFailed, isAllowed, invoked, sent, request, response, outcome, caught,
      turn>>

\* await server.run() resolves: main registers shutdown for both signals.
RunResolves ==
    /\ ~process.exited
    /\ process.main = "run"
    /\ process' = [process EXCEPT
                      !.main = "started",
                      !.listeners = [sig \in Signals |-> Append(@[sig], "shutdown")]]
    /\ UNCHANGED Gateway

\* server.run() rejects: the catch clause of main calls process.exit(1).
RunRejects ==
    /\ ~process.exited
    /\ process.main = "run"
    /\ process' = [process EXCEPT !.main = "failed", !.exited = TRUE, !.exitCode = 1]
    /\ UNCHANGED Gateway

\* The process receives a signal.
Signal(sig) ==
    /\ ~process.exited
    /\ process' = Emit(process.listeners[sig],
                       [process EXCEPT !.signal = sig, !.signalled = process.main])
    /\ UNCHANGED Gateway

\* The running server handles its calls.
Serving ==
    /\ ~process.exited
    /\ process.main = "started"
    /\ Next

NextShutdown ==
    \/ RunResolves
    \/ RunRejects
    \/ \E sig \in Signals : Signal(sig)
    \/ Serving

SpecShutdown == InitShutdown /\ [][NextShutdown]_vars

\* server.close() is never called.
CloseIsNeverCalled == ~process.closed

\* C30: a process that exits on a SIGTERM or SIGINT received after the server
\* had started has called server.close() and seen it complete first.
GracefulShutdown ==
    process.exited /\ process.signalled = "started" => process.closed
====
